---- MODULE Spec2Model ----
(***************************************************************************)
(* Freesound-Audio-Tagging-2019: the chunker of data/feature.py            *)
(* (pad_truncate, truncate_features) and the label-weighted label-ranking  *)
(* average precision of data/lwlrap.py (the NumPy reference and the        *)
(* TensorFlow graph version).                                              *)
(*                                                                         *)
(* A 2-D array is a sequence of rows, a row a sequence of numbers.         *)
(* Python's 0-based half-open slices are kept as PySlice; the model's      *)
(* sequences are 1-based, so frame i of the source is row i + 1 here.      *)
(***************************************************************************)
EXTENDS Integers, Sequences, FiniteSets, TLC

VARIABLES
    vector,       \* truncate_features: the flat feature vector passed in
    n_mel,        \* truncate_features: the n_mel argument
    chunk_size,   \* truncate_features: the chunk_size argument
    r_threshold,  \* truncate_features: the r_threshold argument
    pc,           \* "call" before truncate_features ran, then "returned" or "raised"
    chunks,       \* the returned np.array(chunks): a sequence of 2-D chunks
    n_chunks,     \* the returned n_chunks list
    num_classes,  \* lwlrap: scores.shape[1]
    truth,        \* lwlrap: the truth matrix, truth[sample][class] in {0, 1}
    scores,       \* lwlrap: the score matrix, scores[sample][class]
    argsorted,    \* what np.argsort answers for each row of scores in this build
    lpc,          \* the last metric operation: "input", "calc", "tf", "insert", "remove"
    ref,          \* what calculate_per_class_lwlrap computed for the batch
    tfl,          \* what tf_lwlrap computed for the batch
    prev,         \* calculate_per_class_lwlrap's result before the last insert / remove
    edited        \* the sample number the last insert / remove was about

chunkVars == <<vector, n_mel, chunk_size, r_threshold, pc, chunks, n_chunks>>

\* Bounds of the chunker's inputs.
MaxLen == 7       \* longest flat vector
MaxMel == 2       \* largest n_mel; n_mel is in 0..MaxMel
MaxChunk == 3     \* largest chunk_size; chunk_size and r_threshold are in -1..MaxChunk
MaxDb == 1        \* feature values are decibels relative to the maximum: -MaxDb..0

Values == (0 - MaxDb)..0

Min(a, b) == IF a <= b THEN a ELSE b
Max(a, b) == IF a >= b THEN a ELSE b

\* x[a:b] of Python on a sequence: negative bounds count from the end, both are
\* clamped to 0..len(x), an empty range gives the empty sequence.
PySlice(x, a, b) ==
    LET n  == Len(x)
        lo == IF a < 0 THEN Max(a + n, 0) ELSE Min(a, n)
        hi == IF b < 0 THEN Max(b + n, 0) ELSE Min(b, n)
    IN  IF hi <= lo THEN <<>> ELSE SubSeq(x, lo + 1, hi)

\* np.reshape(feat, (-1, n_mel)) of a flat vector whose length n_mel divides.
reshape(v, n) == [i \in 1..(Len(v) \div n) |-> SubSeq(v, (i - 1) * n + 1, i * n)]

\* np.min over every entry of a non-empty 2-D array.
np_min(feat) ==
    LET S == {feat[i][j] : i \in 1..Len(feat), j \in 1..Len(feat[1])}
    IN  CHOOSE m \in S : \A y \in S : m <= y

\* np.full((rows, cols), pad_value)
np_full(rows, cols, pad_value) == [i \in 1..rows |-> [j \in 1..cols |-> pad_value]]

\* pad_truncate without the padding branch.
pad_truncate_nopad(x, length, pad_value) ==
    IF Len(x) > length THEN PySlice(x, 0, length) ELSE x

\* pad_truncate padding with its default pad_value, 0.
pad_truncate_zero(x, length, pad_value) ==
    LET x_len == Len(x)
    IN  IF x_len > length THEN PySlice(x, 0, length)
        ELSE IF x_len < length
             THEN x \o np_full(length - x_len, Len(x[1]), 0)
             ELSE x

pad_truncate(x, length, pad_value) ==
    LET x_len == Len(x)
    IN  IF x_len > length THEN PySlice(x, 0, length)
        ELSE IF x_len < length
             THEN x \o np_full(length - x_len, Len(x[1]), pad_value)
             ELSE x

\* np.split(ary, sections): equal division into `sections` consecutive pieces.
\* NumPy raises when the length is no multiple of sections; the slice passed in
\* by truncate_features has q * chunk_size rows, because off <= r.
np_split(ary, sections) ==
    LET each == Len(ary) \div sections
    IN  [i \in 1..sections |-> SubSeq(ary, (i - 1) * each + 1, i * each)]

\* No frame dropped at the start.
front_offset_none(r, thr) == 0

\* off = r // 2 if r < r_threshold else 0
front_offset(r, thr) == IF r < thr THEN r \div 2 ELSE 0

\* feat[-chunk_size:]
overlap_chunk(feat, size) == PySlice(feat, 0 - size, Len(feat))

\* The docstring's reading: r greater than r_threshold.
extra_chunk_strict(r, thr) == r > thr

\* if r >= r_threshold: split.append(...)
extra_chunk(r, thr) == r >= thr

\* The body of truncate_features from the reshape on: the list `split`.
split_of(feat, size, thr) ==
    LET q == Len(feat) \div size
        r == Len(feat) % size
    IN  IF q = 0
        THEN <<pad_truncate(feat, size, np_min(feat))>>
        ELSE LET off  == front_offset(r, thr)
                 base == np_split(PySlice(feat, off, q * size + off), q)
             IN  IF extra_chunk(r, thr)
                 THEN Append(base, overlap_chunk(feat, size))
                 ELSE base

\* np.reshape(feat, (-1, n_mel)) raises when n_mel is 0 or negative and when it
\* does not divide the length; np.min raises on an array without entries.
truncate_raises(v, n) == n <= 0 \/ Len(v) % n # 0 \/ Len(v) = 0

\* a // b and a % b of Python for b # 0: the quotient is rounded down and the
\* remainder has the sign of b.
py_floordiv(a, b) == a \div b
py_mod(a, b) == a - b * (a \div b)

\* np.split(ary, sections) raises ValueError when sections is not positive and
\* when it does not divide the length.
np_split_raises(ary, sections) == sections <= 0 \/ Len(ary) % sections # 0

\* What truncate_features raises after the reshape of a non-empty matrix:
\* ZeroDivisionError at len(feat) // chunk_size when chunk_size is 0, and what
\* np.split raises; a negative chunk_size makes q negative.  Nothing in the
\* function looks at chunk_size, n_mel or r_threshold beyond that.
split_raises(feat, size, thr) ==
    IF size = 0 THEN TRUE
    ELSE LET q == py_floordiv(Len(feat), size)
             r == py_mod(Len(feat), size)
             off == front_offset(r, thr)
         IN  q # 0 /\ np_split_raises(PySlice(feat, off, q * size + off), q)

(***************************************************************************)
(* data/lwlrap.py.  Arrays indexed by sample, class or rank are functions  *)
(* on 0..n-1, as in the source; lists built in order are sequences.        *)
(*                                                                         *)
(* Floating-point values are exact fractions <<num, den>> in lowest terms  *)
(* with den >= 0; den = 0 is IEEE's result of dividing by zero: <<0, 0>>   *)
(* is NaN and <<1, 0>> is +inf.                                            *)
(***************************************************************************)
lwlrapVars == <<num_classes, truth, scores, argsorted, lpc, ref, tfl, prev, edited>>

vars == <<chunkVars, lwlrapVars>>

\* Bounds of the metric's inputs.
MaxClasses == 3   \* largest num_classes
MaxSamples == 2   \* largest num_samples
MaxCells == 4     \* largest num_samples * num_classes

RECURSIVE GCD(_, _)
GCD(a, b) == IF b = 0 THEN a ELSE GCD(b, a % b)

Abs(a) == IF a < 0 THEN 0 - a ELSE a
Sign(a) == IF a < 0 THEN 0 - 1 ELSE IF a > 0 THEN 1 ELSE 0

Frac(n, d) ==
    IF d = 0 THEN <<Sign(n), 0>>
    ELSE LET g == GCD(Abs(n), Abs(d))
         IN  <<Sign(d) * (n \div g), Abs(d) \div g>>

Zero == <<0, 1>>
NaN == <<0, 0>>
FromInt(n) == <<n, 1>>
IsFinite(x) == x[2] # 0

\* x + y, x * y and x / y of IEEE arithmetic, without rounding.
FAdd(x, y) ==
    IF x[2] = 0 /\ y[2] = 0
    THEN (IF x = y THEN x ELSE NaN)
    ELSE Frac(x[1] * y[2] + y[1] * x[2], x[2] * y[2])
FMul(x, y) == Frac(x[1] * y[1], x[2] * y[2])
FDiv(x, y) == Frac(x[1] * y[2], x[2] * y[1])

Range0(n) == 0..(n - 1)

\* The elements of a finite set of integers in ascending order.
RECURSIVE Ascending(_)
Ascending(S) ==
    IF S = {} THEN <<>>
    ELSE LET m == CHOOSE x \in S : \A y \in S : x <= y
         IN  <<m>> \o Ascending(S \ {m})

\* np.flatnonzero(truth > 0)
np_flatnonzero(t) == Ascending({c \in DOMAIN t : t[c] > 0})

\* The answers np.argsort(row) may give: the default kind is not stable, so
\* every permutation that puts the scores in ascending order is one.
Argsorts(row) ==
    {p \in [DOMAIN row -> DOMAIN row] :
        /\ \A i \in DOMAIN row : \A j \in DOMAIN row : i # j => p[i] # p[j]
        /\ \A i \in DOMAIN row : \A j \in DOMAIN row : i < j => row[p[i]] <= row[p[j]]}

\* a[::-1]
reversed(a) ==
    LET n == Cardinality(DOMAIN a) IN [k \in Range0(n) |-> a[n - 1 - k]]

\* class_rankings[retrieved_classes] = range(num_classes)
class_rankings_of(retrieved_classes) ==
    [c \in DOMAIN retrieved_classes |->
        CHOOSE k \in DOMAIN retrieved_classes : retrieved_classes[k] = c]

\* retrieved_class_true[class_rankings[pos_class_indices]] = True
retrieved_class_true_of(class_rankings, pos_class_indices) ==
    [k \in DOMAIN class_rankings |->
        \E j \in 1..Len(pos_class_indices) : class_rankings[pos_class_indices[j]] = k]

\* A cumulative sum that leaves the element itself out.
np_cumsum_exclusive(flags) ==
    [k \in DOMAIN flags |-> Cardinality({i \in DOMAIN flags : i < k /\ flags[i]})]

\* np.cumsum of a boolean array
np_cumsum(flags) ==
    [k \in DOMAIN flags |-> Cardinality({i \in DOMAIN flags : i <= k /\ flags[i]})]

\* The division without the 1 + of the 0-based rank.
precision_at_hit_zero_based(hits, rank) == Frac(hits, rank)

\* retrieved_cumulative_hits[rank] / (1 + rank)
precision_at_hit(hits, rank) == Frac(hits, 1 + rank)

\* _one_sample_positive_class_precisions(scores, truth), with `order` the
\* answer of np.argsort(scores).  class_rankings is kept in the result to state
\* properties of the ranking; the early return leaves it empty.
one_sample_positive_class_precisions(score_row, truth_row, order) ==
    LET pos_class_indices == np_flatnonzero(truth_row)
    IN  IF Len(pos_class_indices) = 0
        THEN [pos_class_indices |-> pos_class_indices,
              precision_at_hits |-> <<>>,
              class_rankings |-> <<>>]
        ELSE LET retrieved_classes == reversed(order)
                 class_rankings == class_rankings_of(retrieved_classes)
                 retrieved_class_true ==
                     retrieved_class_true_of(class_rankings, pos_class_indices)
                 retrieved_cumulative_hits == np_cumsum(retrieved_class_true)
             IN  [pos_class_indices |-> pos_class_indices,
                  precision_at_hits |->
                      [j \in 1..Len(pos_class_indices) |->
                          precision_at_hit(
                              retrieved_cumulative_hits[class_rankings[pos_class_indices[j]]],
                              class_rankings[pos_class_indices[j]])],
                  class_rankings |-> class_rankings]

\* The sum of f[i] over i in 0..n-1, left to right.
RECURSIVE SumInt(_, _)
SumInt(f, n) == IF n = 0 THEN 0 ELSE SumInt(f, n - 1) + f[n - 1]

RECURSIVE SumFrac(_, _)
SumFrac(f, n) == IF n = 0 THEN Zero ELSE FAdd(SumFrac(f, n - 1), f[n - 1])

\* Counting the samples instead of the true labels.
labels_per_class_rows(t, classes) ==
    [c \in Range0(classes) |-> Cardinality(DOMAIN t)]

\* np.sum(truth > 0, axis=0), and tf.reduce_sum(pos_flgs, axis=0)
labels_per_class_of(t, classes) ==
    [c \in Range0(classes) |-> Cardinality({s \in DOMAIN t : t[s][c] > 0})]

\* precisions_for_samples_by_classes: zeros, with row sample_num filled in at
\* pos_class_indices by precision_at_hits.
scatter_precisions(per_sample, classes) ==
    [s \in DOMAIN per_sample |->
        [c \in Range0(classes) |->
            LET at == {j \in 1..Len(per_sample[s].pos_class_indices) :
                          per_sample[s].pos_class_indices[j] = c}
            IN  IF at = {} THEN Zero
                ELSE per_sample[s].precision_at_hits[CHOOSE j \in at : TRUE]]]

\* calculate_per_class_lwlrap(truth, scores), with orders[s] the answer of
\* np.argsort for row s.
calculate_per_class_lwlrap(t, sc, orders, classes) ==
    LET num_samples == Cardinality(DOMAIN sc)
        per_sample ==
            [s \in DOMAIN sc |->
                one_sample_positive_class_precisions(sc[s], t[s], orders[s])]
        precisions_for_samples_by_classes == scatter_precisions(per_sample, classes)
        labels_per_class == labels_per_class_of(t, classes)
        total == SumInt(labels_per_class, classes)
    IN  [done |-> TRUE,
         per_sample |-> per_sample,
         precisions_for_samples_by_classes |-> precisions_for_samples_by_classes,
         weight_per_class |->
             [c \in Range0(classes) |-> FDiv(FromInt(labels_per_class[c]), FromInt(total))],
         per_class_lwlrap |->
             [c \in Range0(classes) |->
                 FDiv(SumFrac([s \in Range0(num_samples) |->
                                  precisions_for_samples_by_classes[s][c]], num_samples),
                      FromInt(Max(1, labels_per_class[c])))]]

\* tf.where(m > 0): the <<sample, class>> pairs, row by row.
RECURSIVE tf_where_rows(_, _)
tf_where_rows(m, n) ==
    IF n = 0 THEN <<>>
    ELSE LET cols == Ascending({c \in DOMAIN m[n - 1] : m[n - 1][c] > 0})
         IN  tf_where_rows(m, n - 1) \o [j \in 1..Len(cols) |-> <<n - 1, cols[j]>>]

tf_where(m) == tf_where_rows(m, Cardinality(DOMAIN m))

\* tf.nn.top_k(row, k=num_classes).indices: descending values; of two equal
\* elements the one with the lower index comes first.
top_k_indices(row) ==
    [k \in DOMAIN row |->
        CHOOSE c \in DOMAIN row :
            Cardinality({d \in DOMAIN row :
                            row[d] > row[c] \/ (row[d] = row[c] /\ d < c)}) = k]

\* The sum of the elements of a sequence of fractions.
RECURSIVE SumSeq(_)
SumSeq(q) == IF Len(q) = 0 THEN Zero ELSE FAdd(SumSeq(SubSeq(q, 1, Len(q) - 1)), q[Len(q)])

\* tf_one_sample_positive_class_precisions(y_true, y_pred)
tf_one_sample_positive_class_precisions(y_true, y_pred) ==
    LET pos_class_indices == tf_where(y_true)
        retrieved_classes == [s \in DOMAIN y_pred |-> top_k_indices(y_pred[s])]
        \* scatter_nd(retrieved_class_map, class_range, shape)
        class_rankings == [s \in DOMAIN y_pred |-> class_rankings_of(retrieved_classes[s])]
        \* gather_nd(class_rankings, pos_class_indices)
        num_correct_until_correct ==
            [k \in 1..Len(pos_class_indices) |->
                class_rankings[pos_class_indices[k][1]][pos_class_indices[k][2]]]
        \* scatter_nd(<<sample, rank>>, ones, shape): the updates at one index add up
        retrieved_class_true ==
            [s \in DOMAIN y_pred |->
                [rank \in DOMAIN y_pred[s] |->
                    Cardinality({k \in 1..Len(pos_class_indices) :
                                    /\ pos_class_indices[k][1] = s
                                    /\ num_correct_until_correct[k] = rank})]]
        \* tf.cumsum(retrieved_class_true, axis=1)
        retrieved_cumulative_hits ==
            [s \in DOMAIN y_pred |->
                [rank \in DOMAIN y_pred[s] |-> SumInt(retrieved_class_true[s], rank + 1)]]
        \* tf.where(retrieved_class_true > 0): <<sample, rank>> pairs, row by row
        pos_ret_indices == tf_where(retrieved_class_true)
        correct_rank ==
            [k \in 1..Len(pos_ret_indices) |->
                retrieved_cumulative_hits[pos_ret_indices[k][1]][pos_ret_indices[k][2]]]
    IN  [pos_class_indices |-> pos_class_indices,
         \* tf.truediv(correct_rank, num_correct_until_correct_one), element by element
         precision_at_hits |->
             [k \in 1..Len(pos_class_indices) |->
                 Frac(correct_rank[k], num_correct_until_correct[k] + 1)]]

\* tf.unsorted_segment_sum(data, segment_ids, num_segments)
unsorted_segment_sum(data, segment_ids, num_segments) ==
    [c \in Range0(num_segments) |->
        LET at == Ascending({k \in 1..Len(data) : segment_ids[k] = c})
        IN  SumSeq([j \in 1..Len(at) |-> data[at[j]]])]

\* tf.truediv(sum, labels + 1e-7) in exact arithmetic: the 1e-7 is left out
\* where labels > 0, and 0 / 1e-7 = 0 where labels = 0 (the sum is a sum of
\* products of nothing then).
truediv_epsilon(sum, labels) == IF labels = 0 THEN FMul(sum, FromInt(10000000)) ELSE FDiv(sum, FromInt(labels))

\* tf.tensordot(a, b, axes=1) of two vectors
tensordot(a, b, n) == SumFrac([c \in Range0(n) |-> FMul(a[c], b[c])], n)

\* tf_lwlrap(y_true, y_pred)
tf_lwlrap(y_true, y_pred, classes) ==
    LET one == tf_one_sample_positive_class_precisions(y_true, y_pred)
        labels_per_class == labels_per_class_of(y_true, classes)
        total == SumInt(labels_per_class, classes)
        weight_per_class ==
            [c \in Range0(classes) |-> FDiv(FromInt(labels_per_class[c]), FromInt(total))]
        class_label == [k \in 1..Len(one.pos_class_indices) |-> one.pos_class_indices[k][2]]
        sum_precisions_by_classes ==
            unsorted_segment_sum(one.precision_at_hits, class_label, classes)
        per_class_lwlrap ==
            [c \in Range0(classes) |->
                truediv_epsilon(sum_precisions_by_classes[c], labels_per_class[c])]
    IN  [done |-> TRUE,
         pos_class_indices |-> one.pos_class_indices,
         precision_at_hits |-> one.precision_at_hits,
         out |-> tensordot(per_class_lwlrap, weight_per_class, classes)]

(***************************************************************************)
(* The state machines: one call of truncate_features on an input; the      *)
(* metric functions called on a batch, and on the batch with a sample      *)
(* without true labels put in or taken out.                                *)
(***************************************************************************)
NotDone == [done |-> FALSE]

ChunkIdle ==
    /\ vector = <<>>
    /\ n_mel = 1
    /\ chunk_size = 1
    /\ r_threshold = 0
    /\ pc = "idle"
    /\ chunks = <<>>
    /\ n_chunks = <<>>

LwlrapIdle ==
    /\ num_classes = 1
    /\ truth = <<>>
    /\ scores = <<>>
    /\ argsorted = <<>>
    /\ lpc = "idle"
    /\ ref = NotDone
    /\ tfl = NotDone
    /\ prev = NotDone
    /\ edited = 0

ChunkInit ==
    /\ n_mel \in 0..MaxMel
    /\ chunk_size \in (0 - 1)..MaxChunk
    /\ r_threshold \in (0 - 1)..MaxChunk
    /\ vector \in UNION {[1..n -> Values] : n \in 0..MaxLen}
    /\ pc = "call"
    /\ chunks = <<>>
    /\ n_chunks = <<>>
    /\ LwlrapIdle

truncate_features ==
    /\ pc = "call"
    /\ IF \/ truncate_raises(vector, n_mel)
          \/ split_raises(reshape(vector, n_mel), chunk_size, r_threshold)
       THEN /\ pc' = "raised"
            /\ UNCHANGED <<chunks, n_chunks>>
       ELSE LET split == split_of(reshape(vector, n_mel), chunk_size, r_threshold)
            IN  /\ pc' = "returned"
                /\ n_chunks' = <<Len(split)>>
                /\ chunks' = split
    /\ UNCHANGED <<vector, n_mel, chunk_size, r_threshold>>

ChunkNext == truncate_features /\ UNCHANGED lwlrapVars

SpecChunk == ChunkInit /\ [][ChunkNext]_vars

\* The answers of np.argsort for the rows of sc: one valid answer per row, the
\* same answer for the same row (a build is deterministic), and the answer
\* already seen for a row that `known` has, at the sample numbers in `kept`
\* (kept[s] is the sample number row s had before, or -1 for a new row).
Orders(sc, known, kept) ==
    {o \in [DOMAIN sc -> UNION {Argsorts(sc[s]) : s \in DOMAIN sc}] :
        /\ \A s \in DOMAIN sc : o[s] \in Argsorts(sc[s])
        /\ \A s \in DOMAIN sc : \A t \in DOMAIN sc : sc[s] = sc[t] => o[s] = o[t]
        /\ \A s \in DOMAIN sc : kept[s] >= 0 => o[s] = known[kept[s]]}

NumSamples == Cardinality(DOMAIN scores)

LwlrapInit ==
    /\ num_classes \in 1..MaxClasses
    /\ \E n \in 1..MaxSamples :
          /\ n * num_classes <= MaxCells
          /\ truth \in [Range0(n) -> [Range0(num_classes) -> {0, 1}]]
          /\ scores \in [Range0(n) -> [Range0(num_classes) -> Range0(num_classes)]]
    /\ argsorted = <<>>
    /\ lpc = "input"
    /\ ref = NotDone
    /\ tfl = NotDone
    /\ prev = NotDone
    /\ edited = 0
    /\ ChunkIdle

\* calculate_per_class_lwlrap(truth, scores) on the batch.
CalculatePerClassLwlrap ==
    /\ lpc # "idle"
    /\ ~ref.done
    /\ \E o \in Orders(scores, argsorted, [s \in DOMAIN scores |-> 0 - 1]) :
          /\ argsorted' = o
          /\ ref' = calculate_per_class_lwlrap(truth, scores, o, num_classes)
    /\ lpc' = "calc"
    /\ UNCHANGED <<num_classes, truth, scores, tfl, prev, edited>>

\* tf_lwlrap(y_true, y_pred) on the batch.
TfLwlrap ==
    /\ lpc # "idle"
    /\ ~tfl.done
    /\ tfl' = tf_lwlrap(truth, scores, num_classes)
    /\ lpc' = "tf"
    /\ UNCHANGED <<num_classes, truth, scores, argsorted, ref, prev, edited>>

\* calculate_per_class_lwlrap on the batch with a sample that has no true
\* label put in as sample number p.
InsertEmptySample ==
    /\ ref.done
    /\ NumSamples + 1 <= MaxSamples
    /\ (NumSamples + 1) * num_classes <= MaxCells
    /\ \E p \in 0..NumSamples : \E row \in [Range0(num_classes) -> Range0(num_classes)] :
          LET old(s) == IF s < p THEN s ELSE s - 1
              t2 == [s \in Range0(NumSamples + 1) |->
                        IF s = p THEN [c \in Range0(num_classes) |-> 0] ELSE truth[old(s)]]
              s2 == [s \in Range0(NumSamples + 1) |->
                        IF s = p THEN row ELSE scores[old(s)]]
              kept == [s \in Range0(NumSamples + 1) |-> IF s = p THEN 0 - 1 ELSE old(s)]
          IN  /\ truth' = t2
              /\ scores' = s2
              /\ edited' = p
              /\ \E o \in Orders(s2, argsorted, kept) :
                    /\ argsorted' = o
                    /\ ref' = calculate_per_class_lwlrap(t2, s2, o, num_classes)
    /\ prev' = ref
    /\ tfl' = NotDone
    /\ lpc' = "insert"
    /\ UNCHANGED num_classes

\* calculate_per_class_lwlrap on the batch with sample p, which has no true
\* label, taken out.
RemoveEmptySample ==
    /\ ref.done
    /\ \E p \in DOMAIN truth :
          /\ \A c \in Range0(num_classes) : truth[p][c] = 0
          /\ LET old(s) == IF s < p THEN s ELSE s + 1
                 t2 == [s \in Range0(NumSamples - 1) |-> truth[old(s)]]
                 s2 == [s \in Range0(NumSamples - 1) |-> scores[old(s)]]
                 o  == [s \in Range0(NumSamples - 1) |-> argsorted[old(s)]]
             IN  /\ truth' = t2
                 /\ scores' = s2
                 /\ edited' = p
                 /\ argsorted' = o
                 /\ ref' = calculate_per_class_lwlrap(t2, s2, o, num_classes)
    /\ prev' = ref
    /\ tfl' = NotDone
    /\ lpc' = "remove"
    /\ UNCHANGED num_classes

LwlrapNext ==
    \/ CalculatePerClassLwlrap /\ UNCHANGED chunkVars
    \/ TfLwlrap /\ UNCHANGED chunkVars
    \/ InsertEmptySample /\ UNCHANGED chunkVars
    \/ RemoveEmptySample /\ UNCHANGED chunkVars

SpecLwlrap == LwlrapInit /\ [][LwlrapNext]_vars


(***************************************************************************)
(* Properties of the chunker.                                              *)
(***************************************************************************)
Returned == pc = "returned"
Feat == reshape(vector, n_mel)          \* the (T x n_mel) input matrix
NFrames == Len(Feat)                    \* T
Quot == NFrames \div chunk_size         \* q
Rem == NFrames % chunk_size             \* r

\* Chunk c (1-based) is the input frames [start, start + chunk_size) (0-based).
IsFrames(c, start) ==
    /\ start >= 0
    /\ start + chunk_size <= NFrames
    /\ Len(chunks[c]) = chunk_size
    /\ \A k \in 1..chunk_size : chunks[c][k] = Feat[start + k]

\* The 0-based frame numbers [start, start + chunk_size).
FrameRange(start) == start..(start + chunk_size - 1)

\* C1: every returned chunk has exactly chunk_size rows of n_mel values, the
\* reported count is the number of chunks returned, and that number is 1 when
\* q = 0 and otherwise q or q + 1.
C1_ChunkShapeAndCount ==
    Returned =>
        /\ \A c \in 1..Len(chunks) :
              /\ Len(chunks[c]) = chunk_size
              /\ \A k \in 1..Len(chunks[c]) : Len(chunks[c][k]) = n_mel
        /\ n_chunks = <<Len(chunks)>>
        /\ IF Quot = 0 THEN Len(chunks) = 1 ELSE Len(chunks) \in {Quot, Quot + 1}

C1_Witness ==
    /\ Returned
    /\ Quot >= 2
    /\ Rem >= 1
    /\ Len(chunks) = Quot + 1
    /\ n_chunks = <<Quot + 1>>

\* C2: with 1 <= T < chunk_size there is exactly one chunk; its first T rows
\* are the input frames in order and every entry of the other chunk_size - T
\* rows is the least value of the input matrix.
C2_ShortInputPaddedWithMin ==
    (Returned /\ NFrames < chunk_size) =>
        /\ Len(chunks) = 1
        /\ Len(chunks[1]) = chunk_size
        /\ \A k \in 1..NFrames : chunks[1][k] = Feat[k]
        /\ \A k \in (NFrames + 1)..chunk_size : \A j \in 1..n_mel :
              /\ \E i \in 1..NFrames : \E l \in 1..n_mel : Feat[i][l] = chunks[1][k][j]
              /\ \A i \in 1..NFrames : \A l \in 1..n_mel : chunks[1][k][j] <= Feat[i][l]

C2_Witness ==
    /\ Returned
    /\ NFrames = 2
    /\ chunk_size = 3
    /\ n_mel = 2
    /\ Feat[1] # Feat[2]
    /\ chunks[1][3] # <<0, 0>>

\* C3: with q >= 1 and r < r_threshold there are exactly q chunks and chunk i
\* (0-based) is the frames [off + i*chunk_size, off + (i+1)*chunk_size) with
\* off = r div 2: off frames are dropped at the start, r - off at the end, and
\* the chunks are contiguous and do not overlap.
C3_SmallRemainderTrimmed ==
    (Returned /\ Quot >= 1 /\ Rem < r_threshold) =>
        LET off == Rem \div 2
        IN  /\ Len(chunks) = Quot
            /\ \A i \in 0..(Quot - 1) : IsFrames(i + 1, off + i * chunk_size)
            /\ NFrames - (off + Quot * chunk_size) = Rem - off

C3_Witness ==
    /\ Returned
    /\ Quot = 1
    /\ Rem = 2
    /\ Len(chunks) = 1
    /\ chunks[1] = SubSeq(Feat, 2, 4)
    /\ Rem < r_threshold
    /\ \E i \in 1..NFrames : \E j \in 1..NFrames : Feat[i] # Feat[j]

C10_ExactMultiplePartitioned ==
    (Returned /\ Quot >= 1 /\ Rem = 0 /\ r_threshold \in 0..(chunk_size - 1)) =>
        /\ Len(chunks) = Quot
        /\ \A i \in 0..(Quot - 1) : IsFrames(i + 1, i * chunk_size)

\* An invalid configuration of the chunker.
InvalidConfig == chunk_size <= 0 \/ n_mel <= 0 \/ r_threshold >= chunk_size

\* C11: a call of the chunker with an invalid configuration (chunk_size <= 0,
\* n_mel <= 0 or r_threshold >= chunk_size) ends in an error and returns no
\* chunk; it never goes on with the values as they are or clamped.
C11_InvalidConfigRejected ==
    (pc \in {"returned", "raised"} /\ InvalidConfig) =>
        /\ pc = "raised"
        /\ chunks = <<>>
        /\ n_chunks = <<>>

(***************************************************************************)
(* Properties of the metric.                                               *)
(***************************************************************************)
TrueClasses(s) == {c \in Range0(num_classes) : truth[s][c] > 0}
TotalLabels == Cardinality({sc \in (DOMAIN truth) \X Range0(num_classes) : truth[sc[1]][sc[2]] > 0})

\* rk ranks the classes of sample s by descending score: each rank 0..C-1 is
\* given once and a higher score has a smaller rank.
IsDescendingRanking(rk, s) ==
    /\ DOMAIN rk = Range0(num_classes)
    /\ \A c \in Range0(num_classes) : rk[c] \in Range0(num_classes)
    /\ \A c \in Range0(num_classes) : \A d \in Range0(num_classes) :
          /\ c # d => rk[c] # rk[d]
          /\ scores[s][c] > scores[s][d] => rk[c] < rk[d]

\* C5: for a sample with a true class the per-sample calculator returns the
\* true classes in ascending index order and, for each of them, with r its
\* 0-based rank by descending score, (true classes of rank <= r) / (r + 1);
\* for a sample without a true class it returns no index and no precision.
C5_PerSamplePrecisions ==
    ref.done =>
        \A s \in DOMAIN truth :
            LET one == ref.per_sample[s]
                pos == one.pos_class_indices
                rk  == one.class_rankings
            IN  /\ Len(pos) = Cardinality(TrueClasses(s))
                /\ Len(one.precision_at_hits) = Len(pos)
                /\ \A j \in 1..Len(pos) : pos[j] \in TrueClasses(s)
                /\ \A i \in 1..Len(pos) : \A j \in 1..Len(pos) : i < j => pos[i] < pos[j]
                /\ TrueClasses(s) # {} =>
                      /\ IsDescendingRanking(rk, s)
                      /\ \A j \in 1..Len(pos) :
                            LET hits == Cardinality({d \in TrueClasses(s) : rk[d] <= rk[pos[j]]})
                                p == one.precision_at_hits[j]
                            IN  /\ p[2] > 0
                                /\ p[1] * (rk[pos[j]] + 1) = hits * p[2]

C5_Witness ==
    /\ ref.done
    /\ \E s \in DOMAIN truth :
          /\ Cardinality(TrueClasses(s)) = 2
          /\ num_classes = 3
          /\ ref.per_sample[s].precision_at_hits = <<<<2, 3>>, <<1, 1>>>>

\* C6: in the per-sample calculator, of two classes with equal scores the one
\* with the lower index gets the smaller rank (a stable descending sort); equal
\* scores for three classes with truth [1, 0, 1] give class 0 precision 1 and
\* class 2 precision 2/3.
C6_TiesLowerIndexFirst ==
    ref.done =>
        \A s \in DOMAIN truth :
            TrueClasses(s) # {} =>
                LET one == ref.per_sample[s]
                IN  /\ \A c \in Range0(num_classes) : \A d \in Range0(num_classes) :
                          (c < d /\ scores[s][c] = scores[s][d]) =>
                              one.class_rankings[c] < one.class_rankings[d]
                    /\ ( /\ num_classes = 3
                         /\ TrueClasses(s) = {0, 2}
                         /\ scores[s][0] = scores[s][1]
                         /\ scores[s][1] = scores[s][2] ) =>
                           one.precision_at_hits = <<<<1, 1>>, <<2, 3>>>>

\* C7: on a batch with at least one true label, tf_lwlrap's score is the dot
\* product of per_class_lwlrap and weight_per_class of the reference, and the
\* precision the graph version gives each (sample, true class) is the
\* reference's.
C7_GraphEqualsReference ==
    (ref.done /\ tfl.done /\ TotalLabels >= 1) =>
        /\ tfl.out = tensordot(ref.per_class_lwlrap, ref.weight_per_class, num_classes)
        /\ \A k \in 1..Len(tfl.pos_class_indices) :
              tfl.precision_at_hits[k] =
                  ref.precisions_for_samples_by_classes[tfl.pos_class_indices[k][1]]
                                                       [tfl.pos_class_indices[k][2]]

\* C8: whatever the truth matrix (also one without any true label), a class
\* that is true in no sample has per-class lwlrap 0 and weight 0, and no entry
\* of either returned vector is NaN or the result of a division by zero.
C8_AbsentClassZeroNoNaN ==
    ref.done =>
        \A c \in Range0(num_classes) :
            /\ IsFinite(ref.per_class_lwlrap[c])
            /\ IsFinite(ref.weight_per_class[c])
            /\ (\A s \in DOMAIN truth : truth[s][c] = 0) =>
                  /\ ref.per_class_lwlrap[c] = Zero
                  /\ ref.weight_per_class[c] = Zero

\* C9: putting a sample without true labels into a batch, or taking one out,
\* leaves per_class_lwlrap and weight_per_class as they were (entry by entry
\* the same value, a NaN staying a NaN), and the accumulator row of every
\* sample without true labels is zero throughout.
C9_EmptySampleExcluded ==
    /\ lpc \in {"insert", "remove"} =>
          /\ ref.per_class_lwlrap = prev.per_class_lwlrap
          /\ ref.weight_per_class = prev.weight_per_class
    /\ ref.done =>
          \A s \in DOMAIN truth :
              TrueClasses(s) = {} =>
                  \A c \in Range0(num_classes) :
                      ref.precisions_for_samples_by_classes[s][c] = Zero

C9_Witness ==
    /\ lpc = "insert"
    /\ NumSamples = 2
    /\ num_classes = 2
    /\ TrueClasses(edited) = {}
    /\ scores[edited][0] > scores[edited][1]
    /\ TrueClasses(1 - edited) = {0}
    /\ ref.per_class_lwlrap[0] = <<1, 2>>
    /\ ref.weight_per_class[0] = <<1, 1>>

\* The precisions the per-sample calculator returned for samples 0..n-1, one
\* per (sample, true label).
RECURSIVE PrecisionsUpTo(_)
PrecisionsUpTo(n) ==
    IF n = 0 THEN <<>>
    ELSE PrecisionsUpTo(n - 1) \o ref.per_sample[n - 1].precision_at_hits

\* x is a number in [0, 1].
InUnit(x) == x[2] > 0 /\ 0 <= x[1] /\ x[1] <= x[2]

\* np.sum(per_class_lwlrap * weight_per_class) of the reference's result.
OverallLwlrap == tensordot(ref.per_class_lwlrap, ref.weight_per_class, num_classes)

\* C12: every precision-at-hit of the per-sample calculator is in (0, 1], every
\* entry of per_class_lwlrap is in [0, 1], and on a batch with a true label
\* sum(per_class_lwlrap * weight_per_class) is in (0, 1] and is the plain
\* average of the precisions of all (sample, true label) pairs.
C12_PrecisionRangesAndAverage ==
    ref.done =>
        /\ \A s \in DOMAIN truth :
              \A j \in 1..Len(ref.per_sample[s].precision_at_hits) :
                  /\ InUnit(ref.per_sample[s].precision_at_hits[j])
                  /\ ref.per_sample[s].precision_at_hits[j][1] > 0
        /\ \A c \in Range0(num_classes) : InUnit(ref.per_class_lwlrap[c])
        /\ TotalLabels >= 1 =>
              /\ InUnit(OverallLwlrap)
              /\ OverallLwlrap[1] > 0
              /\ Len(PrecisionsUpTo(NumSamples)) = TotalLabels
              /\ OverallLwlrap[1] * SumSeq(PrecisionsUpTo(NumSamples))[2] * TotalLabels
                    = SumSeq(PrecisionsUpTo(NumSamples))[1] * OverallLwlrap[2]

C12_Witness ==
    /\ ref.done
    /\ NumSamples = 2
    /\ \A s \in DOMAIN truth : TrueClasses(s) # {}
    /\ \E c \in Range0(num_classes) : ref.per_class_lwlrap[c] = Zero
    /\ OverallLwlrap = <<3, 4>>

====
